---- MODULE Spec2Model ----
(***************************************************************************)
(* A model of gridplayer's software-decode frame transport                 *)
(* (src/gridplayer/widgets/video_frame_vlc_sw.py):                         *)
(*   - InstanceProcessVLCSW: the fixed table of shared slots (SpecPool);   *)
(*   - ImageDecoder / VideoDriverVLCSW: the decoder callbacks, the         *)
(*     renderer and teardown around one shared channel (SpecChannel);      *)
(*   - PlayerProcessSingleVLCSW: the load / restart protocol (SpecWorker). *)
(***************************************************************************)
EXTENDS Integers, Sequences, FiniteSets, TLC

(***************************************************************************)
(* Bounds of the model.                                                    *)
(***************************************************************************)
\* players_per_instance: the number of slots of one instance (line 106).
PlayersPerInstance == 2

(***************************************************************************)
(* Player identifiers and the shared "c" array that stores one.            *)
(***************************************************************************)
\* gridplayer.params.static.PLAYER_ID_LENGTH, scaled down.
PLAYER_ID_LENGTH == 1

\* Array("c", PLAYER_ID_LENGTH * 2): the capacity of a slot's id array.
ArrayCap == PLAYER_ID_LENGTH * 2

IdChars == {"a", "b"}

\* ord() of an id character.
Ord(ch) == IF ch = "a" THEN 97 ELSE 98

\* The identifiers workers are named by: fixed-length strings.
PlayerIds == [1..ArrayCap -> IdChars]

\* str.encode(): the bytes of an ASCII string.
Encode(s) == [i \in 1..Len(s) |-> Ord(s[i])]

\* b"": the empty byte string.
EmptyBytes == << >>

\* Array("c", n).value = bytes: the bytes, then NULs up to the capacity.
SetValue(bytes) == [i \in 1..ArrayCap |-> IF i <= Len(bytes) THEN bytes[i] ELSE 0]

\* Array("c", n).value: the bytes before the first NUL.
GetValue(arr) ==
    LET nuls == {i \in 1..Len(arr) : arr[i] = 0}
        n == IF nuls = {} THEN Len(arr)
             ELSE (CHOOSE i \in nuls : \A j \in nuls : i <= j) - 1
    IN  SubSeq(arr, 1, n)

(***************************************************************************)
(* Byte strings of the frame buffer, kept run-length encoded: a sequence   *)
(* of runs [n |-> length, b |-> byte value], no run empty and no two       *)
(* neighbouring runs of the same byte, so equal strings are equal values.  *)
(***************************************************************************)
RECURSIVE Canon(_)
Canon(s) ==
    IF s = << >> THEN << >>
    ELSE IF Head(s).n = 0 THEN Canon(Tail(s))
    ELSE LET rest == Canon(Tail(s))
         IN  IF rest # << >> /\ Head(rest).b = Head(s).b
             THEN <<[n |-> Head(s).n + Head(rest).n, b |-> Head(s).b]>> \o Tail(rest)
             ELSE <<Head(s)>> \o rest

\* len(bytes)
RECURSIVE BLen(_)
BLen(s) == IF s = << >> THEN 0 ELSE Head(s).n + BLen(Tail(s))

\* bytes[:k]
RECURSIVE BTake(_, _)
BTake(s, k) ==
    IF s = << >> \/ k <= 0 THEN << >>
    ELSE IF Head(s).n >= k THEN <<[n |-> k, b |-> Head(s).b]>>
    ELSE <<Head(s)>> \o BTake(Tail(s), k - Head(s).n)

\* bytes[k:]
RECURSIVE BDrop(_, _)
BDrop(s, k) ==
    IF s = << >> \/ k <= 0 THEN s
    ELSE IF Head(s).n > k THEN <<[n |-> Head(s).n - k, b |-> Head(s).b]>> \o Tail(s)
    ELSE BDrop(Tail(s), k - Head(s).n)

\* a + b
BCat(a, b) == Canon(a \o b)

\* bytes[i], offsets from 0
RECURSIVE ByteAt(_, _)
ByteAt(s, i) == IF i < Head(s).n THEN Head(s).b ELSE ByteAt(Tail(s), i - Head(s).n)

\* An attribute that is None or holds a byte string.
None == [some |-> FALSE, v |-> << >>]
Some(x) == [some |-> TRUE, v |-> x]

\* n zero bytes: a freshly created shared memory segment.
Zeros(n) == Canon(<<[n |-> n, b |-> 0]>>)

\* s with the byte at offset off replaced by v.
WithByte(s, off, v) ==
    BCat(BCat(BTake(s, off), <<[n |-> 1, b |-> v]>>), BDrop(s, off + 1))

(***************************************************************************)
(* The frame: media_track.video_dimensions and the buffer made for it.     *)
(***************************************************************************)
\* The dimensions of the video the model plays.
FrameWidth == 17
FrameHeight == 16

\* The notifications that fit into the pipe from the worker to the renderer.
MaxPipe == 2

\* The calls of stop() after the first that the teardown specification follows.
MaxStops == 1

\* The videos a worker is asked to load after its first one.
MaxLoads == 1

\* The frame-ready notifications of a worker that the loading specification
\* follows.
MaxFrames == 2

\* RV32: bytes per pixel (self._row_size = self._width * 4).
BytesPerPixel == 4

\* buf[:1024]: the length of the fingerprinted head of a frame.
FRAME_HEAD == 1024

\* set_frame: _row_size = width * 4, buf_size = height * _row_size
\* Mutant of RowSize: three bytes per pixel.
RowSize_Packed(width) == width * 3

RowSize(width) == width * BytesPerPixel
BufSize(width, height) == height * RowSize(width)

\* The frames the decoder writes: a black one, one that differs from it in the
\* last byte of the fingerprinted head, one that differs in the first byte
\* after the head.
Frames ==
    LET z == Zeros(BufSize(FrameWidth, FrameHeight))
    IN  {z, WithByte(z, FRAME_HEAD - 1, 1), WithByte(z, FRAME_HEAD, 1)}

Slots == 1..PlayersPerInstance
\* The callers of the slot table's operations: the process that starts workers
\* and the instance process whose workers release their slots.
Callers == {"gui", "instance"}

VARIABLES
    \* InstanceProcessVLCSW._memory_locks: the shared slot table
    is_busy,               \* slot -> Value("i")
    player_id,             \* slot -> Array("c") contents
    players_shared_data,   \* id -> slot whose lock the consumer handle holds (0: none)
    players,               \* id -> slot whose lock the worker's handle holds (0: none)
    \* one call of a slot table operation per caller
    p_pc, p_op, p_arg, p_k, p_slot, p_out,
    p_full                 \* history: every slot was busy when the claim was called

poolVars == <<is_busy, player_id, players_shared_data, players,
              p_pc, p_op, p_arg, p_k, p_slot, p_out, p_full>>

VARIABLES
    \* one channel: the slot's Lock and the named shared memory segment
    lock,      \* "free", or who acquired it: "decoder", "renderer", "ui"
    shm_buf,   \* the bytes of the segment
    bridge,    \* ImageDecoder: stopped, is_paused, prev_frame_head, and memory,
               \* the state of its SafeSharedMemory ("open", "closed")
    dec,       \* the native decoder thread inside lock_cb / unlock_cb
    pipe,      \* the notifications sent to the renderer and not yet received
    rend,      \* VideoDriverVLCSW and its command loop
    tear,      \* c_pc: VideoDriverVLCSW.cleanup; s_pc: the worker's cleanup
    hist       \* history: fp_frame, the frame last fingerprinted; late, what the
               \* callbacks did to the channel after stop() had finished; stops,
               \* the calls of stop() after the first

chanVars == <<lock, shm_buf, bridge, dec, pipe, rend, tear, hist>>

VARIABLES
    w,         \* PlayerProcessSingleVLCSW: its fields, and the history of its handlers
    w_inbox,   \* the commands sent to the worker and not yet handled
    w_outbox,  \* the commands the worker sent with cmd_send, not yet received
    player_proc  \* id -> the worker of that id: its decoder, and its cleanup

workerVars == <<w, w_inbox, w_outbox, player_proc>>

VARIABLES
    pm,        \* PlaylistManager: _saved_playlist, the videos of the grid, the
               \* playlist files on disk, and the history of the last save command
    tt         \* the time texts last made: the seconds, and the two texts

appVars == <<pm, tt>>

vars == <<poolVars, chanVars, workerVars, appVars>>

(***************************************************************************)
(* InstanceProcessVLCSW                                                    *)
(***************************************************************************)
\* __init__: every slot free, with an empty id.
InitPool ==
    /\ is_busy = [i \in Slots |-> 0]
    /\ player_id = [i \in Slots |-> SetValue(EmptyBytes)]
    /\ players_shared_data = [id \in PlayerIds |-> 0]
    /\ players = [id \in PlayerIds |-> 0]
    /\ p_pc = [c \in Callers |-> "idle"]
    /\ p_op = [c \in Callers |-> "none"]
    /\ p_arg = [c \in Callers |-> CHOOSE id \in PlayerIds : TRUE]
    /\ p_k = [c \in Callers |-> 1]
    /\ p_slot = [c \in Callers |-> 0]
    /\ p_out = [c \in Callers |-> "none"]
    /\ p_full = [c \in Callers |-> FALSE]

\* The slots whose stored id equals the encoded id.
MatchingSlots(id) == {i \in Slots : GetValue(player_id[i]) = Encode(id)}

\* get_player_lock: the first slot whose id matches (0: StopIteration).
get_player_lock(id) ==
    IF MatchingSlots(id) = {} THEN 0
    ELSE CHOOSE i \in MatchingSlots(id) : \A j \in MatchingSlots(id) : i <= j

\* Mutant of get_player_shared_memory: the handle is bound to the lock of the
\* first slot of the table.
get_player_shared_memory_FirstSlot(id) == IF get_player_lock(id) = 0 THEN 0 ELSE 1

\* get_player_shared_memory: a handle bound to that slot's lock.
get_player_shared_memory(id) == get_player_lock(id)

\* The ids that name a worker that exists or is being set up.
IdsInUse ==
    {id \in PlayerIds : players_shared_data[id] # 0 \/ players[id] # 0}
        \cup {p_arg[c] : c \in {d \in Callers : p_pc[d] # "idle"}}

AllIdle == \A c \in Callers : p_pc[c] = "idle"

\* A caller enters init_player_shared_data with the id of a new worker.
ClaimCall(c, id) ==
    /\ p_pc[c] = "idle"
    /\ id \notin IdsInUse
    /\ p_pc' = [p_pc EXCEPT ![c] = "scan_free"]
    /\ p_op' = [p_op EXCEPT ![c] = "claim"]
    /\ p_arg' = [p_arg EXCEPT ![c] = id]
    /\ p_k' = [p_k EXCEPT ![c] = 1]
    /\ p_slot' = [p_slot EXCEPT ![c] = 0]
    /\ p_out' = [p_out EXCEPT ![c] = "none"]
    /\ p_full' = [p_full EXCEPT ![c] = \A i \in Slots : is_busy[i] = 1]
    /\ UNCHANGED <<is_busy, player_id, players_shared_data, players>>

\* Mutant of IsAvailable: only the last slot that is not busy passes the test.
IsAvailable_Last(i) == is_busy[i] = 0 /\ \A j \in Slots : j > i => is_busy[j] = 1

\* The generator's test of one slot: ml["is_busy"].value == 0.
IsAvailable(i) == is_busy[i] = 0

\* Mutant of ClaimScan: next(available_locks, self._memory_locks[0]), a scan that
\* falls back to the first slot when it finds none available.
ClaimScan_Default(c) ==
    /\ p_pc[c] = "scan_free"
    /\ IF p_k[c] <= PlayersPerInstance /\ ~IsAvailable(p_k[c])
       THEN /\ p_k' = [p_k EXCEPT ![c] = p_k[c] + 1]
            /\ UNCHANGED <<p_pc, p_slot>>
       ELSE /\ p_slot' = [p_slot EXCEPT ![c] = IF p_k[c] > PlayersPerInstance THEN 1 ELSE p_k[c]]
            /\ p_pc' = [p_pc EXCEPT ![c] = "set_busy"]
            /\ p_k' = [p_k EXCEPT ![c] = 1]
    /\ UNCHANGED <<is_busy, player_id, players_shared_data, players, p_op, p_arg, p_out, p_full>>

\* next(available_locks): the generator reads one slot per step and stops at the
\* first available one; StopIteration when it runs off the table.
ClaimScan(c) ==
    /\ p_pc[c] = "scan_free"
    /\ IF p_k[c] > PlayersPerInstance
       THEN /\ p_pc' = [p_pc EXCEPT ![c] = "idle"]
            /\ p_out' = [p_out EXCEPT ![c] = "StopIteration"]
            /\ p_k' = [p_k EXCEPT ![c] = 1]
            /\ UNCHANGED p_slot
       ELSE IF IsAvailable(p_k[c])
       THEN /\ p_slot' = [p_slot EXCEPT ![c] = p_k[c]]
            /\ p_pc' = [p_pc EXCEPT ![c] = "set_busy"]
            /\ p_k' = [p_k EXCEPT ![c] = 1]
            /\ UNCHANGED p_out
       ELSE /\ p_k' = [p_k EXCEPT ![c] = p_k[c] + 1]
            /\ UNCHANGED <<p_pc, p_slot, p_out>>
    /\ UNCHANGED <<is_busy, player_id, players_shared_data, players, p_op, p_arg, p_full>>

\* player_lock["is_busy"].value = 1
ClaimSetBusy(c) ==
    /\ p_pc[c] = "set_busy"
    /\ is_busy' = [is_busy EXCEPT ![p_slot[c]] = 1]
    /\ p_pc' = [p_pc EXCEPT ![c] = "set_id"]
    /\ UNCHANGED <<player_id, players_shared_data, players, p_op, p_arg, p_k, p_slot, p_out, p_full>>

\* player_lock["player_id"].value = player_id.encode()
ClaimSetId(c) ==
    /\ p_pc[c] = "set_id"
    /\ player_id' = [player_id EXCEPT ![p_slot[c]] = SetValue(Encode(p_arg[c]))]
    /\ p_pc' = [p_pc EXCEPT ![c] = "store"]
    /\ UNCHANGED <<is_busy, players_shared_data, players, p_op, p_arg, p_k, p_slot, p_out, p_full>>

\* self._players_shared_data[player_id] = self.get_player_shared_memory(player_id)
ClaimStore(c) ==
    /\ p_pc[c] = "store"
    /\ IF get_player_lock(p_arg[c]) = 0
       THEN /\ p_out' = [p_out EXCEPT ![c] = "StopIteration"]
            /\ UNCHANGED players_shared_data
       ELSE /\ players_shared_data' =
                  [players_shared_data EXCEPT ![p_arg[c]] = get_player_shared_memory(p_arg[c])]
            /\ p_out' = [p_out EXCEPT ![c] = "ok"]
    /\ p_pc' = [p_pc EXCEPT ![c] = "idle"]
    /\ UNCHANGED <<is_busy, player_id, players, p_op, p_arg, p_k, p_slot, p_full>>

\* new_player: the worker of a claimed id is created with a handle of its own.
new_player(id) ==
    /\ players_shared_data[id] # 0
    /\ players[id] = 0
    /\ \A c \in Callers : p_pc[c] # "idle" => p_arg[c] # id
    /\ get_player_lock(id) # 0
    /\ players' = [players EXCEPT ![id] = get_player_shared_memory(id)]
    /\ UNCHANGED <<is_busy, player_id, players_shared_data,
                   p_pc, p_op, p_arg, p_k, p_slot, p_out, p_full>>

\* A worker's cleanup calls release_callback(self.id): release_player_shared_data
\* is entered once, with the id of an existing worker.
ReleaseCall(c, id) ==
    /\ p_pc[c] = "idle"
    /\ players[id] # 0
    /\ \A d \in Callers : p_pc[d] # "idle" => p_arg[d] # id
    /\ p_pc' = [p_pc EXCEPT ![c] = "rel_find"]
    /\ p_op' = [p_op EXCEPT ![c] = "release"]
    /\ p_arg' = [p_arg EXCEPT ![c] = id]
    /\ p_slot' = [p_slot EXCEPT ![c] = 0]
    /\ p_out' = [p_out EXCEPT ![c] = "none"]
    /\ p_full' = [p_full EXCEPT ![c] = FALSE]
    /\ UNCHANGED <<is_busy, player_id, players_shared_data, players, p_k>>

\* player_lock = self.get_player_lock(player_id)
ReleaseFind(c) ==
    /\ p_pc[c] = "rel_find"
    /\ IF get_player_lock(p_arg[c]) = 0
       THEN /\ p_pc' = [p_pc EXCEPT ![c] = "idle"]
            /\ p_out' = [p_out EXCEPT ![c] = "StopIteration"]
            /\ UNCHANGED p_slot
       ELSE /\ p_slot' = [p_slot EXCEPT ![c] = get_player_lock(p_arg[c])]
            /\ p_pc' = [p_pc EXCEPT ![c] = "rel_clear_id"]
            /\ UNCHANGED p_out
    /\ UNCHANGED <<is_busy, player_id, players_shared_data, players, p_op, p_arg, p_k, p_full>>

\* Mutant of ReleaseClearId: the stored id is left in the slot.
ReleaseClearId_KeepId(c) ==
    /\ p_pc[c] = "rel_clear_id"
    /\ p_pc' = [p_pc EXCEPT ![c] = "rel_clear_busy"]
    /\ UNCHANGED <<is_busy, player_id, players_shared_data, players, p_op, p_arg, p_k, p_slot, p_out, p_full>>

\* player_lock["player_id"].value = b""
ReleaseClearId(c) ==
    /\ p_pc[c] = "rel_clear_id"
    /\ player_id' = [player_id EXCEPT ![p_slot[c]] = SetValue(EmptyBytes)]
    /\ p_pc' = [p_pc EXCEPT ![c] = "rel_clear_busy"]
    /\ UNCHANGED <<is_busy, players_shared_data, players, p_op, p_arg, p_k, p_slot, p_out, p_full>>

\* Mutant of ReleaseClearBusy: the slot is left marked busy.
ReleaseClearBusy_KeepBusy(c) ==
    /\ p_pc[c] = "rel_clear_busy"
    /\ players' = [players EXCEPT ![p_arg[c]] = 0]
    /\ players_shared_data' = [players_shared_data EXCEPT ![p_arg[c]] = 0]
    /\ p_pc' = [p_pc EXCEPT ![c] = "idle"]
    /\ p_out' = [p_out EXCEPT ![c] = "ok"]
    /\ UNCHANGED <<is_busy, player_id, p_op, p_arg, p_k, p_slot, p_full>>

\* player_lock["is_busy"].value = 0; the worker and its handles are then dropped.
ReleaseClearBusy(c) ==
    /\ p_pc[c] = "rel_clear_busy"
    /\ is_busy' = [is_busy EXCEPT ![p_slot[c]] = 0]
    /\ players' = [players EXCEPT ![p_arg[c]] = 0]
    /\ players_shared_data' = [players_shared_data EXCEPT ![p_arg[c]] = 0]
    /\ p_pc' = [p_pc EXCEPT ![c] = "idle"]
    /\ p_out' = [p_out EXCEPT ![c] = "ok"]
    /\ UNCHANGED <<player_id, p_op, p_arg, p_k, p_slot, p_full>>

\* Sequential calls: an operation is entered only when no other is in progress.
NextPool ==
    \/ \E c \in Callers, id \in PlayerIds : AllIdle /\ ClaimCall(c, id) /\ UNCHANGED <<chanVars, workerVars, appVars>>
    \/ \E c \in Callers, id \in PlayerIds : AllIdle /\ ReleaseCall(c, id) /\ UNCHANGED <<chanVars, workerVars, appVars>>
    \/ \E id \in PlayerIds : AllIdle /\ new_player(id) /\ UNCHANGED <<chanVars, workerVars, appVars>>
    \/ \E c \in Callers : ClaimScan(c) /\ UNCHANGED <<chanVars, workerVars, appVars>>
    \/ \E c \in Callers : ClaimSetBusy(c) /\ UNCHANGED <<chanVars, workerVars, appVars>>
    \/ \E c \in Callers : ClaimSetId(c) /\ UNCHANGED <<chanVars, workerVars, appVars>>
    \/ \E c \in Callers : ClaimStore(c) /\ UNCHANGED <<chanVars, workerVars, appVars>>
    \/ \E c \in Callers : ReleaseFind(c) /\ UNCHANGED <<chanVars, workerVars, appVars>>
    \/ \E c \in Callers : ReleaseClearId(c) /\ UNCHANGED <<chanVars, workerVars, appVars>>
    \/ \E c \in Callers : ReleaseClearBusy(c) /\ UNCHANGED <<chanVars, workerVars, appVars>>


\* Concurrent calls: a caller may enter init_player_shared_data or
\* release_player_shared_data while the other is inside one; nothing in the
\* operations makes a caller wait for the other.
NextPoolConcurrent ==
    \/ \E c \in Callers, id \in PlayerIds : ClaimCall(c, id) /\ UNCHANGED <<chanVars, workerVars, appVars>>
    \/ \E c \in Callers, id \in PlayerIds : ReleaseCall(c, id) /\ UNCHANGED <<chanVars, workerVars, appVars>>
    \/ \E id \in PlayerIds : new_player(id) /\ UNCHANGED <<chanVars, workerVars, appVars>>
    \/ \E c \in Callers : ClaimScan(c) /\ UNCHANGED <<chanVars, workerVars, appVars>>
    \/ \E c \in Callers : ClaimSetBusy(c) /\ UNCHANGED <<chanVars, workerVars, appVars>>
    \/ \E c \in Callers : ClaimSetId(c) /\ UNCHANGED <<chanVars, workerVars, appVars>>
    \/ \E c \in Callers : ClaimStore(c) /\ UNCHANGED <<chanVars, workerVars, appVars>>
    \/ \E c \in Callers : ReleaseFind(c) /\ UNCHANGED <<chanVars, workerVars, appVars>>
    \/ \E c \in Callers : ReleaseClearId(c) /\ UNCHANGED <<chanVars, workerVars, appVars>>
    \/ \E c \in Callers : ReleaseClearBusy(c) /\ UNCHANGED <<chanVars, workerVars, appVars>>


(***************************************************************************)
(* Properties of the slot table (SpecPool).                                *)
(***************************************************************************)
BusySlots == {i \in Slots : is_busy[i] = 1}

\* The workers that hold a claim: a claim succeeded and no release finished.
Owners == {id \in PlayerIds : players_shared_data[id] # 0}

\* C1: under sequential claim and release calls, no two slots that are busy at
\* the same time carry the same owner id, and neither the busy slots nor the
\* workers holding a claim ever number more than the capacity of the pool.
C1_UniqueOwnersWithinCapacity ==
    /\ \A i, j \in BusySlots :
          i # j => GetValue(player_id[i]) # GetValue(player_id[j])
    /\ Cardinality(BusySlots) <= PlayersPerInstance
    /\ Cardinality(Owners) <= PlayersPerInstance

\* C1 witness: the pool is full of distinct owners after a release has freed a
\* slot and a later claim has taken it.
C1_Witness ==
    /\ AllIdle
    /\ BusySlots = Slots
    /\ Cardinality(Owners) = PlayersPerInstance
    /\ \E c \in Callers : p_op[c] = "release" /\ p_out[c] = "ok"
    /\ \E c \in Callers : p_op[c] = "claim" /\ p_out[c] = "ok"

\* C5: a claim entered when every slot is busy never selects a slot, can always
\* take its next step (it waits for nothing), leaves the table as it is, and
\* returns with StopIteration, which is not the outcome of a successful claim.
C5_ClaimFailsWhenFull ==
    \A c \in Callers :
        (p_op[c] = "claim" /\ p_full[c]) =>
            /\ p_pc[c] \in {"idle", "scan_free"}
            /\ p_slot[c] = 0
            /\ (p_pc[c] = "scan_free") => ((ENABLED ClaimScan(c)) /\ BusySlots = Slots)
            /\ (p_pc[c] = "idle") => (p_out[c] = "StopIteration")

\* C5 witness: a claim entered on a full pool has returned.
C5_Witness ==
    \E c \in Callers :
        /\ p_op[c] = "claim" /\ p_full[c]
        /\ p_pc[c] = "idle" /\ p_out[c] = "StopIteration"
        /\ BusySlots = Slots

\* C10 as claimed: in every reachable state, the states between the writes of
\* one claim or one release included, a slot's owner id is empty iff the slot
\* is not busy.
C10_EmptyIffNotBusy_EveryState ==
    \A i \in Slots : (GetValue(player_id[i]) = EmptyBytes) <=> (is_busy[i] = 0)

\* C10 amended: under sequential claim and release calls, a slot that is not
\* busy has an empty owner id in every state, and a busy slot has an empty owner
\* id only between the two shared writes of the claim or the release that is
\* working on that slot.
C10_EmptyIffNotBusy_Quiescent ==
    \A i \in Slots :
        /\ is_busy[i] = 0 => GetValue(player_id[i]) = EmptyBytes
        /\ (is_busy[i] = 1 /\ GetValue(player_id[i]) = EmptyBytes) =>
              \E c \in Callers : p_slot[c] = i /\ p_pc[c] \in {"set_id", "rel_clear_busy"}

\* C10 witness: after a release, one slot is busy with an id and one is free.
C10_Witness ==
    /\ AllIdle
    /\ \E c \in Callers : p_op[c] = "release" /\ p_out[c] = "ok"
    /\ \E i \in Slots : is_busy[i] = 1 /\ GetValue(player_id[i]) # EmptyBytes
    /\ \E i \in Slots : is_busy[i] = 0 /\ GetValue(player_id[i]) = EmptyBytes

\* C11: under sequential calls, the slot a claim selects is the lowest-indexed
\* slot that is not busy, and once the claim has stamped it, that slot carries
\* the new owner id and is the slot the returned handle is bound to; so a claim
\* that follows a release which freed a slot above busy slots takes that slot.
C11_ClaimTakesLowestFreeSlot ==
    \A c \in Callers :
        /\ (p_op[c] = "claim" /\ p_pc[c] = "set_busy") =>
              /\ p_slot[c] \in Slots
              /\ is_busy[p_slot[c]] = 0
              /\ \A j \in Slots : j < p_slot[c] => is_busy[j] = 1
        /\ (p_op[c] = "claim" /\ p_pc[c] = "store") =>
              /\ GetValue(player_id[p_slot[c]]) = Encode(p_arg[c])
              /\ get_player_shared_memory(p_arg[c]) = p_slot[c]

\* C11 witness: a release has freed the last slot while every lower slot stayed
\* busy, and the next claim, of another id, has stamped that same slot.
C11_Witness ==
    \E c, d \in Callers :
        /\ p_op[d] = "release" /\ p_pc[d] = "idle" /\ p_out[d] = "ok"
        /\ p_slot[d] = PlayersPerInstance
        /\ p_op[c] = "claim" /\ p_pc[c] = "store"
        /\ p_slot[c] = p_slot[d]
        /\ p_arg[c] # p_arg[d]
        /\ BusySlots = Slots
        /\ GetValue(player_id[p_slot[c]]) = Encode(p_arg[c])


\* A claim has selected its slot and has not returned.
HoldsSelection(c) == p_op[c] = "claim" /\ p_pc[c] \in {"set_busy", "set_id", "store"}

\* C18 as claimed: two claims whose steps interleave never select the same
\* slot, and the id of every worker that holds a claim is found by the lookup
\* unless its release is in progress.
C18_ConcurrentClaimsTakeDistinctSlots ==
    /\ \A c, d \in Callers :
          (c # d /\ HoldsSelection(c) /\ HoldsSelection(d)) => p_slot[c] # p_slot[d]
    /\ \A id \in Owners :
          (\A c \in Callers : p_pc[c] = "idle" \/ p_arg[c] # id) => get_player_lock(id) # 0


(***************************************************************************)
(* One channel: ImageDecoder in the worker process, VideoDriverVLCSW in    *)
(* the consumer process.  SafeSharedMemory and releasing() are modelled    *)
(* from the design: acquire blocks while the lock is held, release frees   *)
(* the lock whoever acquired it and is tolerated on a free lock, close()   *)
(* may be repeated, and a closed handle has no memory to read.             *)
(***************************************************************************)
\* What the display surface shows: nothing yet, the solid placeholder or a
\* frame, with the size of the pixmap.
NoImage == [kind |-> "none", width |-> 0, height |-> 0]

\* The thread of the decoder outside the callbacks.
DecoderIdle ==
    [pc |-> "idle", frame |-> Zeros(BufSize(FrameWidth, FrameHeight)),
     planes |-> "none", saw_stopped |-> FALSE, saw_paused |-> FALSE,
     sent |-> 0, prev_fp |-> None, fault |-> FALSE]

\* ImageDecoder.__init__ followed by _init_video_decoder: the buffer is
\* allocated, the callbacks are attached, init_frame is on its way.
InitChannel ==
    /\ lock = "free"
    /\ shm_buf = Zeros(BufSize(FrameWidth, FrameHeight))
    /\ bridge = [stopped |-> FALSE, is_paused |-> TRUE,
                 prev_frame_head |-> None, memory |-> "open"]
    /\ dec = DecoderIdle
    /\ pipe = <<"init_frame">>
    /\ rend = [pc |-> "idle", shared_memory |-> "None", memory |-> "open",
               px |-> "None", part |-> << >>, pix |-> None,
               width |-> 0, height |-> 0, stale |-> FALSE,
               signals |-> << >>, image_dest |-> NoImage]
    /\ tear = [c_pc |-> "none", s_pc |-> "none"]
    /\ hist = [fp_frame |-> None, late |-> FALSE, stops |-> 0,
               cmd_paused |-> TRUE]

\* lock.acquire(): blocks until the lock is free.
Acquire(who) == lock = "free" /\ lock' = who

\* lock.release(): frees the lock; on a free lock it raises ValueError, which
\* releasing(), SafeSharedMemory.__exit__ and stop() swallow.
Release == lock' = "free"

\* A callback writes, reads, notifies or fails: late becomes true if stop() has
\* finished by then.
Late == hist.late \/ tear.s_pc = "done"

\* lock_cb: self._shared_memory.lock.acquire()
LockEntry ==
    /\ dec.pc = "idle"
    /\ Acquire("decoder")
    /\ dec' = [dec EXCEPT !.pc = "lock_ptr"]
    /\ UNCHANGED <<shm_buf, bridge, pipe, rend, tear, hist>>

\* lock_cb: planes[0] = self._shared_memory.ptr; the pointer of a closed
\* channel points at memory that is no longer there.
LockEntryPtr ==
    /\ dec.pc = "lock_ptr"
    /\ dec' = [dec EXCEPT !.pc = "write_head",
                          !.planes = IF bridge.memory = "open" THEN "buf" ELSE "dangling"]
    /\ UNCHANGED <<lock, shm_buf, bridge, pipe, rend, tear, hist>>

\* The decoder writes the picture through planes[0], here in two parts. A write
\* through the pointer of a closed channel is undefined: it is lost, or it
\* ends the decoder thread.
DecoderWriteHead ==
    /\ dec.pc = "write_head"
    /\ \E f \in Frames :
         IF bridge.memory = "open" /\ dec.planes = "buf"
         THEN /\ shm_buf' = BCat(BTake(f, FRAME_HEAD), BDrop(shm_buf, FRAME_HEAD))
              /\ dec' = [dec EXCEPT !.pc = "write_tail", !.frame = f]
              /\ UNCHANGED hist
         ELSE /\ UNCHANGED shm_buf
              /\ \E outcome \in {"write_tail", "crashed"} :
                   dec' = [dec EXCEPT !.pc = outcome, !.frame = f]
              /\ hist' = [hist EXCEPT !.late = Late]
    /\ UNCHANGED <<lock, bridge, pipe, rend, tear>>

DecoderWriteTail ==
    /\ dec.pc = "write_tail"
    /\ IF bridge.memory = "open" /\ dec.planes = "buf"
       THEN /\ shm_buf' = BCat(BTake(shm_buf, FRAME_HEAD), BDrop(dec.frame, FRAME_HEAD))
            /\ dec' = [dec EXCEPT !.pc = "written", !.frame = DecoderIdle.frame]
            /\ UNCHANGED hist
       ELSE /\ UNCHANGED shm_buf
            /\ \E outcome \in {"written", "crashed"} :
                 dec' = [dec EXCEPT !.pc = outcome, !.frame = DecoderIdle.frame]
            /\ hist' = [hist EXCEPT !.late = Late]
    /\ UNCHANGED <<lock, bridge, pipe, rend, tear>>

\* unlock_cb is entered: with releasing(self._shared_memory.lock):
UnlockEntry ==
    /\ dec.pc = "written"
    /\ dec' = [dec EXCEPT !.pc = "u_stopped", !.saw_stopped = FALSE,
                          !.saw_paused = FALSE, !.sent = 0, !.fault = FALSE,
                          !.prev_fp = hist.fp_frame]
    /\ UNCHANGED <<lock, shm_buf, bridge, pipe, rend, tear, hist>>

\* Mutant of UnlockCheckStopped: the early return leaves the callback without
\* passing the exit of the with block.
UnlockCheckStopped_ReturnEarly ==
    /\ dec.pc = "u_stopped"
    /\ dec' = IF bridge.stopped THEN DecoderIdle
              ELSE [dec EXCEPT !.pc = "u_paused", !.saw_stopped = FALSE]
    /\ UNCHANGED <<lock, shm_buf, bridge, pipe, rend, tear, hist>>

\* if self._stopped: return
UnlockCheckStopped ==
    /\ dec.pc = "u_stopped"
    /\ dec' = [dec EXCEPT !.pc = IF bridge.stopped THEN "u_release" ELSE "u_paused",
                          !.saw_stopped = bridge.stopped]
    /\ UNCHANGED <<lock, shm_buf, bridge, pipe, rend, tear, hist>>

\* Mutant of UnlockCheckPaused: the frame is compared whether paused or not.
UnlockCheckPaused_AlwaysCompare ==
    /\ dec.pc = "u_paused"
    /\ dec' = [dec EXCEPT !.pc = "u_changed", !.saw_paused = bridge.is_paused]
    /\ UNCHANGED <<lock, shm_buf, bridge, pipe, rend, tear, hist>>

\* if self.is_paused and ...: the read of is_paused
UnlockCheckPaused ==
    /\ dec.pc = "u_paused"
    /\ dec' = [dec EXCEPT !.pc = IF bridge.is_paused THEN "u_changed" ELSE "u_notify",
                          !.saw_paused = bridge.is_paused]
    /\ UNCHANGED <<lock, shm_buf, bridge, pipe, rend, tear, hist>>

\* Mutant of FrameHead: the slice is one byte longer.
FrameHead_OneMore(buf) == BTake(buf, FRAME_HEAD + 1)

\* bytes(self._shared_memory.memory.buf[:1024])
FrameHead(buf) == BTake(buf, FRAME_HEAD)

\* _is_frame_changed, and the return of unlock_cb when it answers False. On a
\* closed channel the read of memory.buf fails inside the callback.
UnlockIsFrameChanged ==
    /\ dec.pc = "u_changed"
    /\ IF bridge.memory # "open"
       THEN /\ dec' = [dec EXCEPT !.pc = "u_release", !.fault = TRUE]
            /\ hist' = [hist EXCEPT !.late = Late]
            /\ UNCHANGED bridge
       ELSE IF Some(FrameHead(shm_buf)) = bridge.prev_frame_head
       THEN /\ dec' = [dec EXCEPT !.pc = "u_release"]
            /\ hist' = [hist EXCEPT !.late = Late]
            /\ UNCHANGED bridge
       ELSE /\ bridge' = [bridge EXCEPT !.prev_frame_head = Some(FrameHead(shm_buf))]
            /\ dec' = [dec EXCEPT !.pc = "u_notify"]
            /\ hist' = [hist EXCEPT !.fp_frame = Some(shm_buf), !.late = Late]
    /\ UNCHANGED <<lock, shm_buf, pipe, rend, tear>>

\* self._frame_ready_cb(): ready_signal, cmd_send("process_image")
UnlockNotify ==
    /\ dec.pc = "u_notify"
    /\ Len(pipe) < MaxPipe
    /\ pipe' = Append(pipe, "process_image")
    /\ dec' = [dec EXCEPT !.pc = "u_release", !.sent = dec.sent + 1]
    /\ hist' = [hist EXCEPT !.late = Late]
    /\ UNCHANGED <<lock, shm_buf, bridge, rend, tear>>

\* The exit of the with block, on every path out of the callback body.
UnlockRelease ==
    /\ dec.pc = "u_release"
    /\ Release
    /\ dec' = DecoderIdle
    /\ UNCHANGED <<shm_buf, bridge, pipe, rend, tear, hist>>
\* Mutant of play: the paused flag of the bridge is left as it was.
play_KeepPaused ==
    /\ tear.s_pc = "none"
    /\ hist' = [hist EXCEPT !.cmd_paused = FALSE]
    /\ UNCHANGED <<lock, shm_buf, bridge, dec, pipe, rend, tear>>

\* PlayerProcessSingleVLCSW.play: self.decoder.is_paused = False; cmd_paused
\* is history, the paused value the last playback command asked for.
play ==
    /\ tear.s_pc = "none"
    /\ bridge' = [bridge EXCEPT !.is_paused = FALSE]
    /\ hist' = [hist EXCEPT !.cmd_paused = FALSE]
    /\ UNCHANGED <<lock, shm_buf, dec, pipe, rend, tear>>

\* PlayerProcessSingleVLCSW.set_pause: self.decoder.is_paused = is_paused
set_pause(is_paused) ==
    /\ tear.s_pc = "none"
    /\ bridge' = [bridge EXCEPT !.is_paused = is_paused]
    /\ hist' = [hist EXCEPT !.cmd_paused = is_paused]
    /\ UNCHANGED <<lock, shm_buf, dec, pipe, rend, tear>>

\* PlayerProcessSingleVLCSW.cleanup, on the cleanup command: super().cleanup()
WorkerCleanup ==
    /\ tear.s_pc = "requested"
    /\ tear' = [tear EXCEPT !.s_pc = "stop_flag"]
    /\ UNCHANGED <<lock, shm_buf, bridge, dec, pipe, rend, hist>>

\* ImageDecoder.stop: self._stopped = True
StopSetFlag ==
    /\ tear.s_pc = "stop_flag"
    /\ bridge' = [bridge EXCEPT !.stopped = TRUE]
    /\ tear' = [tear EXCEPT !.s_pc = "stop_release"]
    /\ UNCHANGED <<lock, shm_buf, dec, pipe, rend, hist>>

\* Mutant of StopRelease: the release without suppress(ValueError); on a lock
\* that is not held the error leaves stop().
StopRelease_NoSuppress ==
    /\ tear.s_pc = "stop_release"
    /\ IF lock = "free"
       THEN /\ tear' = [tear EXCEPT !.s_pc = "raised"]
            /\ UNCHANGED lock
       ELSE /\ Release
            /\ tear' = [tear EXCEPT !.s_pc = "stop_close"]
    /\ UNCHANGED <<shm_buf, bridge, dec, pipe, rend, hist>>

\* ImageDecoder.stop: with suppress(ValueError): self._shared_memory.lock.release()
StopRelease ==
    /\ tear.s_pc = "stop_release"
    /\ Release
    /\ tear' = [tear EXCEPT !.s_pc = "stop_close"]
    /\ UNCHANGED <<shm_buf, bridge, dec, pipe, rend, hist>>

\* ImageDecoder.stop: self._shared_memory.close()
StopClose ==
    /\ tear.s_pc = "stop_close"
    /\ bridge' = [bridge EXCEPT !.memory = "closed"]
    /\ tear' = [tear EXCEPT !.s_pc = "done"]
    /\ UNCHANGED <<lock, shm_buf, dec, pipe, rend, hist>>

(***************************************************************************)
(* VideoDriverVLCSW                                                        *)
(***************************************************************************)
\* The command loop takes the next notification off the pipe; stale is
\* history: the notification arrived after cleanup had closed the handle.
RendReceive ==
    /\ rend.pc = "idle"
    /\ pipe # << >>
    /\ pipe' = Tail(pipe)
    /\ rend' = [rend EXCEPT !.pc = IF Head(pipe) = "init_frame" THEN "init_frame"
                                   ELSE "pi_check",
                            !.stale = (rend.memory = "closed")]
    /\ UNCHANGED <<lock, shm_buf, bridge, dec, tear, hist>>

\* A signal emitted by the command loop waits, in order, for the UI thread.
\* Signals waiting one behind the other for the same slot are kept as one:
\* the slots take no argument and show what the fields hold when they run,
\* so the display after handling one is the display after handling all.
Emit(signals, sig) ==
    IF signals # << >> /\ signals[Len(signals)] = sig THEN signals
    ELSE Append(signals, sig)

\* init_frame: the handle and the dimensions are stored and
\* set_dummy_frame_sig is emitted.
init_frame ==
    /\ rend.pc = "init_frame"
    /\ rend' = [rend EXCEPT !.pc = "idle", !.shared_memory = "handle",
                            !.width = FrameWidth, !.height = FrameHeight,
                            !.signals = Emit(rend.signals, "set_dummy_frame")]
    /\ UNCHANGED <<lock, shm_buf, bridge, dec, pipe, tear, hist>>

\* process_image: if self._shared_memory is None: return
ProcessImageCheck ==
    /\ rend.pc = "pi_check"
    /\ rend' = [rend EXCEPT !.pc = IF rend.shared_memory = "None" THEN "idle"
                                   ELSE "pi_with"]
    /\ UNCHANGED <<lock, shm_buf, bridge, dec, pipe, tear, hist>>

\* process_image: with self._shared_memory: the value of the expression. On
\* None the with statement fails before __enter__: with AttributeError, which
\* is caught, or with TypeError (interpreters from 3.11 on), which leaves
\* process_image.
ProcessImageWith ==
    /\ rend.pc = "pi_with"
    /\ IF rend.shared_memory = "None"
       THEN \E outcome \in {"idle", "raised"} : rend' = [rend EXCEPT !.pc = outcome]
       ELSE rend' = [rend EXCEPT !.pc = "pi_enter"]
    /\ UNCHANGED <<lock, shm_buf, bridge, dec, pipe, tear, hist>>

\* process_image: __enter__ acquires the lock.
ProcessImageEnter ==
    /\ rend.pc = "pi_enter"
    /\ Acquire("renderer")
    /\ rend' = [rend EXCEPT !.pc = "pi_wrap"]
    /\ UNCHANGED <<shm_buf, bridge, dec, pipe, tear, hist>>

\* process_image: px = QImage(self._shared_memory.memory.buf, ...): an image over
\* the buffer, which copies no byte. Without a handle or with a closed one the
\* expression raises AttributeError: the with block is left (releasing the lock)
\* and the frame is skipped.
ProcessImageWrap ==
    /\ rend.pc = "pi_wrap"
    /\ IF rend.shared_memory = "None" \/ rend.memory # "open"
       THEN /\ Release
            /\ rend' = [rend EXCEPT !.pc = "idle"]
       ELSE /\ UNCHANGED lock
            /\ rend' = [rend EXCEPT !.pc = "pi_exit", !.px = "view"]
    /\ UNCHANGED <<shm_buf, bridge, dec, pipe, tear, hist>>

\* process_image: __exit__ releases the lock.
ProcessImageExit ==
    /\ rend.pc = "pi_exit"
    /\ Release
    /\ rend' = [rend EXCEPT !.pc = "pi_copy_head"]
    /\ UNCHANGED <<shm_buf, bridge, dec, pipe, tear, hist>>

\* process_image: self._pix = QPixmap.fromImage(px) reads the pixels out of the
\* buffer px refers to, here in two parts. If the handle was closed meanwhile
\* the read is undefined: it still finds the segment, or it ends the thread.
ProcessImageCopyHead ==
    /\ rend.pc = "pi_copy_head"
    /\ \/ rend' = [rend EXCEPT !.pc = "pi_copy_tail", !.part = BTake(shm_buf, FRAME_HEAD)]
       \/ /\ rend.memory # "open"
          /\ rend' = [rend EXCEPT !.pc = "crashed"]
    /\ UNCHANGED <<lock, shm_buf, bridge, dec, pipe, tear, hist>>

ProcessImageCopyTail ==
    /\ rend.pc = "pi_copy_tail"
    /\ \/ rend' = [rend EXCEPT !.pc = "pi_emit", !.part = << >>, !.px = "None",
                               !.pix = Some(BCat(rend.part, BDrop(shm_buf, FRAME_HEAD)))]
       \/ /\ rend.memory # "open"
          /\ rend' = [rend EXCEPT !.pc = "crashed"]
    /\ UNCHANGED <<lock, shm_buf, bridge, dec, pipe, tear, hist>>

\* process_image: self.image_ready_sig.emit()
ProcessImageEmit ==
    /\ rend.pc = "pi_emit"
    /\ rend' = [rend EXCEPT !.pc = "idle",
                            !.signals = Emit(rend.signals, "image_ready")]
    /\ UNCHANGED <<lock, shm_buf, bridge, dec, pipe, tear, hist>>

\* The UI thread is free to handle a signal: it is not inside cleanup.
UiThreadFree == tear.c_pc \in {"none", "done"}

\* Mutant of set_dummy_frame: the placeholder is 1 x 1.
set_dummy_frame_Unit ==
    /\ UiThreadFree
    /\ rend.signals # << >> /\ Head(rend.signals) = "set_dummy_frame"
    /\ rend' = [rend EXCEPT !.signals = Tail(rend.signals),
                            !.image_dest = [kind |-> "placeholder",
                                            width |-> 1, height |-> 1]]
    /\ UNCHANGED <<lock, shm_buf, bridge, dec, pipe, tear, hist>>

\* set_dummy_frame: a black pixmap of the stored dimensions is displayed.
set_dummy_frame ==
    /\ UiThreadFree
    /\ rend.signals # << >> /\ Head(rend.signals) = "set_dummy_frame"
    /\ rend' = [rend EXCEPT !.signals = Tail(rend.signals),
                            !.image_dest = [kind |-> "placeholder",
                                            width |-> rend.width,
                                            height |-> rend.height]]
    /\ UNCHANGED <<lock, shm_buf, bridge, dec, pipe, tear, hist>>

\* image_ready: self._image_dest.setPixmap(self._pix)
image_ready ==
    /\ UiThreadFree
    /\ rend.signals # << >> /\ Head(rend.signals) = "image_ready"
    /\ rend' = [rend EXCEPT !.signals = Tail(rend.signals),
                            !.image_dest = IF rend.pix.some
                                           THEN [kind |-> "frame",
                                                 width |-> rend.width,
                                                 height |-> rend.height]
                                           ELSE NoImage]
    /\ UNCHANGED <<lock, shm_buf, bridge, dec, pipe, tear, hist>>

\* cleanup, called on the UI thread: if self._shared_memory is not None:
CleanupStart ==
    /\ tear.c_pc = "none"
    /\ tear' = [tear EXCEPT !.c_pc = IF rend.shared_memory = "None" THEN "player"
                                     ELSE "enter"]
    /\ UNCHANGED <<lock, shm_buf, bridge, dec, pipe, rend, hist>>

\* cleanup: with self._shared_memory: (__enter__)
CleanupEnter ==
    /\ tear.c_pc = "enter"
    /\ Acquire("ui")
    /\ tear' = [tear EXCEPT !.c_pc = "close"]
    /\ UNCHANGED <<shm_buf, bridge, dec, pipe, rend, hist>>

\* cleanup: self._shared_memory.close()
CleanupClose ==
    /\ tear.c_pc = "close"
    /\ rend' = [rend EXCEPT !.memory = "closed"]
    /\ tear' = [tear EXCEPT !.c_pc = "set_none"]
    /\ UNCHANGED <<lock, shm_buf, bridge, dec, pipe, hist>>

\* cleanup: self._shared_memory = None
CleanupSetNone ==
    /\ tear.c_pc = "set_none"
    /\ rend' = [rend EXCEPT !.shared_memory = "None"]
    /\ tear' = [tear EXCEPT !.c_pc = "exit"]
    /\ UNCHANGED <<lock, shm_buf, bridge, dec, pipe, hist>>

\* cleanup: the with block is left (__exit__)
CleanupExit ==
    /\ tear.c_pc = "exit"
    /\ Release
    /\ tear' = [tear EXCEPT !.c_pc = "player"]
    /\ UNCHANGED <<shm_buf, bridge, dec, pipe, rend, hist>>

\* cleanup: super().cleanup(); self.player.cleanup(): the worker is told to
\* clean up, unless it has been told already.
CleanupPlayer ==
    /\ tear.c_pc = "player"
    /\ tear' = [tear EXCEPT !.c_pc = "done",
                            !.s_pc = IF tear.s_pc = "none" THEN "requested" ELSE tear.s_pc]
    /\ UNCHANGED <<lock, shm_buf, bridge, dec, pipe, rend, hist>>

\* The channel: the decoder's callbacks, the worker's commands and stop(), the
\* renderer's command loop and cleanup. The UI thread's handling of the
\* signals touches the display only and is followed in NextPlay and
\* NextShutdown.
NextChannel ==
    \/ LockEntry /\ UNCHANGED <<poolVars, workerVars, appVars>>
    \/ LockEntryPtr /\ UNCHANGED <<poolVars, workerVars, appVars>>
    \/ DecoderWriteHead /\ UNCHANGED <<poolVars, workerVars, appVars>>
    \/ DecoderWriteTail /\ UNCHANGED <<poolVars, workerVars, appVars>>
    \/ UnlockEntry /\ UNCHANGED <<poolVars, workerVars, appVars>>
    \/ UnlockCheckStopped /\ UNCHANGED <<poolVars, workerVars, appVars>>
    \/ UnlockCheckPaused /\ UNCHANGED <<poolVars, workerVars, appVars>>
    \/ UnlockIsFrameChanged /\ UNCHANGED <<poolVars, workerVars, appVars>>
    \/ UnlockNotify /\ UNCHANGED <<poolVars, workerVars, appVars>>
    \/ UnlockRelease /\ UNCHANGED <<poolVars, workerVars, appVars>>
    \/ play /\ UNCHANGED <<poolVars, workerVars, appVars>>
    \/ \E b \in BOOLEAN : set_pause(b) /\ UNCHANGED <<poolVars, workerVars, appVars>>
    \/ WorkerCleanup /\ UNCHANGED <<poolVars, workerVars, appVars>>
    \/ StopSetFlag /\ UNCHANGED <<poolVars, workerVars, appVars>>
    \/ StopRelease /\ UNCHANGED <<poolVars, workerVars, appVars>>
    \/ StopClose /\ UNCHANGED <<poolVars, workerVars, appVars>>
    \/ RendReceive /\ UNCHANGED <<poolVars, workerVars, appVars>>
    \/ init_frame /\ UNCHANGED <<poolVars, workerVars, appVars>>
    \/ ProcessImageCheck /\ UNCHANGED <<poolVars, workerVars, appVars>>
    \/ ProcessImageWith /\ UNCHANGED <<poolVars, workerVars, appVars>>
    \/ ProcessImageEnter /\ UNCHANGED <<poolVars, workerVars, appVars>>
    \/ ProcessImageWrap /\ UNCHANGED <<poolVars, workerVars, appVars>>
    \/ ProcessImageExit /\ UNCHANGED <<poolVars, workerVars, appVars>>
    \/ ProcessImageCopyHead /\ UNCHANGED <<poolVars, workerVars, appVars>>
    \/ ProcessImageCopyTail /\ UNCHANGED <<poolVars, workerVars, appVars>>
    \/ ProcessImageEmit /\ UNCHANGED <<poolVars, workerVars, appVars>>
    \/ CleanupStart /\ UNCHANGED <<poolVars, workerVars, appVars>>
    \/ CleanupEnter /\ UNCHANGED <<poolVars, workerVars, appVars>>
    \/ CleanupClose /\ UNCHANGED <<poolVars, workerVars, appVars>>
    \/ CleanupSetNone /\ UNCHANGED <<poolVars, workerVars, appVars>>
    \/ CleanupExit /\ UNCHANGED <<poolVars, workerVars, appVars>>
    \/ CleanupPlayer /\ UNCHANGED <<poolVars, workerVars, appVars>>


(***************************************************************************)
(* Teardown on its own: the channel with a paused bridge, where the        *)
(* worker may also be told to clean up by its own process before the       *)
(* renderer's cleanup, and where stop() may be called again.               *)
(***************************************************************************)
\* The worker is told to clean up while the renderer has not cleaned up.
InstanceCleanup ==
    /\ tear.s_pc = "none"
    /\ tear.c_pc \in {"none", "enter"}
    /\ tear' = [tear EXCEPT !.s_pc = "requested"]
    /\ UNCHANGED <<lock, shm_buf, bridge, dec, pipe, rend, hist>>

\* ImageDecoder.stop is called once more after it has finished.
StopAgain ==
    /\ tear.s_pc = "done"
    /\ hist.stops < MaxStops
    /\ tear' = [tear EXCEPT !.s_pc = "stop_flag"]
    /\ hist' = [hist EXCEPT !.stops = hist.stops + 1]
    /\ UNCHANGED <<lock, shm_buf, bridge, dec, pipe, rend>>

\* The decoder writes the picture that is in the buffer already: nothing changes
\* in an open channel; the write through the pointer of a closed one is
\* undefined, as in DecoderWriteHead.
DecoderRewrite ==
    /\ dec.pc = "write_head"
    /\ IF bridge.memory = "open" /\ dec.planes = "buf"
       THEN /\ dec' = [dec EXCEPT !.pc = "written"]
            /\ UNCHANGED hist
       ELSE /\ \E outcome \in {"written", "crashed"} : dec' = [dec EXCEPT !.pc = outcome]
            /\ hist' = [hist EXCEPT !.late = Late]
    /\ UNCHANGED <<lock, shm_buf, bridge, pipe, rend, tear>>

\* The steps of lock_cb and unlock_cb once the callback has been entered.
CallbackStep ==
    \/ LockEntryPtr \/ UnlockCheckStopped \/ UnlockCheckPaused
    \/ UnlockIsFrameChanged \/ UnlockNotify \/ UnlockRelease

\* The decoder: it calls the callbacks, and writes between them.
DecoderStep == LockEntry \/ DecoderRewrite \/ UnlockEntry \/ CallbackStep

RendererStep ==
    \/ RendReceive \/ init_frame \/ ProcessImageCheck \/ ProcessImageWith
    \/ ProcessImageEnter \/ ProcessImageWrap \/ ProcessImageExit
    \/ ProcessImageCopyHead \/ ProcessImageCopyTail \/ ProcessImageEmit

CleanupStep ==
    \/ CleanupStart \/ CleanupEnter \/ CleanupClose \/ CleanupSetNone
    \/ CleanupExit \/ CleanupPlayer

StopStep == WorkerCleanup \/ StopSetFlag \/ StopRelease \/ StopClose

\* The UI thread handles the next signal of the command loop.
UiStep == set_dummy_frame \/ image_ready

\* Teardown as the renderer's cleanup starts it.
NextShutdown ==
    \/ DecoderStep /\ UNCHANGED <<poolVars, workerVars, appVars>>
    \/ RendererStep /\ UNCHANGED <<poolVars, workerVars, appVars>>
    \/ CleanupStep /\ UNCHANGED <<poolVars, workerVars, appVars>>
    \/ StopStep /\ UNCHANGED <<poolVars, workerVars, appVars>>
    \/ UiStep /\ UNCHANGED <<poolVars, workerVars, appVars>>

NextTeardown ==
    \/ NextShutdown
    \/ InstanceCleanup /\ UNCHANGED <<poolVars, workerVars, appVars>>
    \/ StopAgain /\ UNCHANGED <<poolVars, workerVars, appVars>>

(***************************************************************************)
(* Playback on its own: the decoder, the renderer's command loop and the   *)
(* play and pause commands, with no teardown.  cmd_send of the base class  *)
(* is modelled as a send that waits while the pipe is full.                *)
(***************************************************************************)
\* What follows a lock entry: the write, the unlock entry and the callbacks' steps.
AfterLockEntry == DecoderRewrite \/ UnlockEntry \/ CallbackStep

NextPlay ==
    \/ LockEntry /\ UNCHANGED <<poolVars, workerVars, appVars>>
    \/ AfterLockEntry /\ UNCHANGED <<poolVars, workerVars, appVars>>
    \/ RendererStep /\ UNCHANGED <<poolVars, workerVars, appVars>>
    \/ UiStep /\ UNCHANGED <<poolVars, workerVars, appVars>>
    \/ play /\ UNCHANGED <<poolVars, workerVars, appVars>>
    \/ \E b \in BOOLEAN : set_pause(b) /\ UNCHANGED <<poolVars, workerVars, appVars>>

(***************************************************************************)
(* PlayerProcessSingleVLCSW: loading a video.  The base class              *)
(* (VlcPlayerThreaded: load_video, the parse, stop, the command loop) is   *)
(* modelled from the design: a worker is given one video to load; the      *)
(* parse of a video reports its dimensions at once ("early") or only when  *)
(* the video is loaded again after it has played ("late"); an exception in *)
(* a handler ends the worker.                                              *)
(***************************************************************************)
Media == {"m1", "m2"}
Kinds == {"early", "late"}

\* media_track.video_dimensions of the videos of the model.
Dimensions == {<<FrameWidth, FrameHeight>>, <<FrameHeight, FrameWidth>>}

NoDims == <<0, 0>>

\* No handler has run yet.
NoEvent == [name |-> "none", attached |-> FALSE, normal |-> FALSE,
            stopped |-> FALSE, sent |-> << >>]

\* __init__ (and init_player): no decoder is initialized.
InitWorker ==
    /\ w = [state |-> "Idle", media_input |-> "none", media_track |-> NoDims,
            is_decoder_initialized |-> FALSE,
            allocated |-> 0, attached |-> FALSE, format |-> << >>,
            frame |-> << >>, allocs |-> 0, frame0 |-> << >>, loads |-> 0,
            kind |-> "none", dims |-> NoDims, session |-> 0, restarts |-> 0,
            attached_in |-> 0, ev |-> NoEvent, log |-> << >>]
    /\ w_inbox = << >>
    /\ w_outbox = << >>

\* The consumer asks the new worker to load a video.
LoadRequest(m, kind, d) ==
    /\ w.state = "Idle" /\ w.kind = "none"
    /\ w' = [w EXCEPT !.kind = kind, !.dims = d]
    /\ w_inbox' = Append(w_inbox, <<"load_video", m>>)
    /\ UNCHANGED w_outbox

\* load_video, the base class's handler of the command.
load_video ==
    /\ w_inbox # << >>
    /\ w.state \in {"Idle", "Stopped", "Loaded", "Playing", "Paused"}
    /\ w' = [w EXCEPT !.state = "MediaLoading", !.media_input = Head(w_inbox)[2],
                      !.session = w.session + 1, !.media_track = NoDims,
                      !.ev = [NoEvent EXCEPT !.name = "load_video"]]
    /\ w_inbox' = Tail(w_inbox)
    /\ UNCHANGED w_outbox

\* The parse ends: media_track is set if the parse found the dimensions.
MediaParsed ==
    /\ w.state = "MediaLoading"
    /\ w' = [w EXCEPT !.state = "Parsed",
                      !.media_track = IF w.kind = "early" \/ w.session > 1
                                      THEN w.dims ELSE NoDims]
    /\ UNCHANGED <<w_inbox, w_outbox>>

\* A variant of _init_video_decoder that leaves _is_decoder_initialized alone.
init_video_decoder_NoFlag(wk, allocated) ==
    LET width == wk.media_track[1]
        height == wk.media_track[2]
        framed == [wk EXCEPT !.frame = <<width, height, RowSize(width)>>]
    IN  IF ~allocated
        THEN [framed EXCEPT !.state = "Crashed"]
        ELSE [framed EXCEPT !.allocated = BufSize(width, height),
                            !.allocs = wk.allocs + 1,
                            !.frame0 = IF wk.allocs = 0 THEN framed.frame ELSE wk.frame0,
                            !.attached = TRUE,
                            !.attached_in = wk.session,
                            !.format = <<"RV32", width, height, RowSize(width)>>]

\* _init_video_decoder, with set_frame and attach_media_player; allocated tells
\* whether allocate() succeeds. The flag is set first, then set_frame stores the
\* frame's width, height and row size and calls allocate(), whether a buffer was
\* allocated before or not. It applies to the worker record and gives the record
\* after the call; frame0 and allocs are history.
init_video_decoder(wk, allocated) ==
    LET width == wk.media_track[1]
        height == wk.media_track[2]
        flagged == [wk EXCEPT !.is_decoder_initialized = TRUE]
        framed == [flagged EXCEPT !.frame = <<width, height, RowSize(width)>>]
    IN  IF ~allocated
        THEN [framed EXCEPT !.state = "Crashed"]
        ELSE [framed EXCEPT !.allocated = BufSize(width, height),
                            !.allocs = wk.allocs + 1,
                            !.frame0 = IF wk.allocs = 0 THEN framed.frame ELSE wk.frame0,
                            !.attached = TRUE,
                            !.attached_in = wk.session,
                            !.format = <<"RV32", width, height, RowSize(width)>>]

\* load_video_st2_set_parsed_media: the decoder is initialized if media_track is
\* set; then the base class starts the player.
load_video_st2_set_parsed_media ==
    /\ w.state = "Parsed"
    /\ \E allocated \in BOOLEAN :
         LET has_track == w.media_track # NoDims
             after == IF has_track THEN init_video_decoder(w, allocated) ELSE w
             crashed == after.state = "Crashed"
         IN  /\ w' = [after EXCEPT !.state = IF crashed THEN "Crashed" ELSE "Buffering",
                                   !.ev = [NoEvent EXCEPT !.name = "parsed",
                                                          !.attached = w.attached,
                                                          !.normal = ~crashed],
                                   !.log = IF has_track /\ ~crashed
                                           THEN Append(w.log, "init_frame")
                                           ELSE w.log]
             /\ w_outbox' = IF has_track /\ ~crashed
                            THEN Append(w_outbox, <<"init_frame", w.media_track[1],
                                                    w.media_track[2]>>)
                            ELSE w_outbox
    /\ UNCHANGED w_inbox

\* _restart_playback: self.stop(); self.cmd_send("load_video", self.media_input)
restart_playback(wk) ==
    [wk EXCEPT !.state = "Stopped", !.restarts = wk.restarts + 1,
               !.ev = [name |-> "loaded", attached |-> wk.attached, normal |-> FALSE,
                       stopped |-> TRUE, sent |-> <<"load_video", wk.media_input>>]]

\* A variant of the test that never asks for a restart.
NeedsRestart_Never(wk) == FALSE

\* The test of load_video_st4_loaded: not self._is_decoder_initialized
NeedsRestart(wk) == ~wk.is_decoder_initialized

\* load_video_st4_loaded, on the decoder's "loaded" event.
load_video_st4_loaded ==
    /\ w.state = "Buffering"
    /\ IF NeedsRestart(w)
       THEN /\ w' = restart_playback(w)
            /\ w_outbox' = Append(w_outbox, restart_playback(w).ev.sent)
       ELSE /\ w' = [w EXCEPT !.state = "Loaded",
                              !.ev = [NoEvent EXCEPT !.name = "loaded",
                                                     !.attached = w.attached,
                                                     !.normal = TRUE]]
            /\ UNCHANGED w_outbox
    /\ UNCHANGED w_inbox

\* The player's decoder finishes a frame and the unlock entry calls
\* ready_signal: cmd_send("process_image"). The decoder calls the entries only
\* once they are attached, and while the player runs; log is history: the
\* notifications sent to the renderer, in order.
ready_signal ==
    /\ w.attached
    /\ w.state \in {"Buffering", "Loaded", "Playing", "Paused"}
    /\ Len(SelectSeq(w.log, LAMBDA n : n = "process_image")) < MaxFrames
    /\ w' = [w EXCEPT !.log = Append(w.log, "process_image")]
    /\ w_outbox' = Append(w_outbox, <<"process_image">>)
    /\ UNCHANGED w_inbox

\* The consumer receives a command of the worker: load_video comes back to the
\* worker, init_frame and process_image stay with the renderer.
DriverReceive ==
    /\ w_outbox # << >>
    /\ w_outbox' = Tail(w_outbox)
    /\ w_inbox' = IF Head(w_outbox)[1] = "load_video"
                  THEN Append(w_inbox, Head(w_outbox)) ELSE w_inbox
    /\ UNCHANGED w

\* play, on the play command of a loaded video.
WorkerPlay ==
    /\ w.state \in {"Loaded", "Paused"}
    /\ play
    /\ w' = [w EXCEPT !.state = "Playing", !.ev = [NoEvent EXCEPT !.name = "play"]]
    /\ UNCHANGED <<w_inbox, w_outbox>>

\* set_pause, on the pause command of a playing video.
WorkerSetPause(is_paused) ==
    /\ w.state \in {"Playing", "Paused"}
    /\ set_pause(is_paused)
    /\ w' = [w EXCEPT !.state = IF is_paused THEN "Paused" ELSE "Playing",
                      !.ev = [NoEvent EXCEPT !.name = "set_pause"]]
    /\ UNCHANGED <<w_inbox, w_outbox>>

NextWorker ==
    \/ \E m \in Media, kind \in Kinds, d \in Dimensions :
         LoadRequest(m, kind, d) /\ UNCHANGED <<poolVars, chanVars, player_proc, appVars>>
    \/ load_video /\ UNCHANGED <<poolVars, chanVars, player_proc, appVars>>
    \/ MediaParsed /\ UNCHANGED <<poolVars, chanVars, player_proc, appVars>>
    \/ load_video_st2_set_parsed_media /\ UNCHANGED <<poolVars, chanVars, player_proc, appVars>>
    \/ load_video_st4_loaded /\ UNCHANGED <<poolVars, chanVars, player_proc, appVars>>
    \/ DriverReceive /\ UNCHANGED <<poolVars, chanVars, player_proc, appVars>>
    \/ ready_signal /\ UNCHANGED <<poolVars, chanVars, player_proc, appVars>>
    \/ WorkerPlay /\ UNCHANGED <<poolVars, player_proc, appVars>>
    \/ \E b \in BOOLEAN : WorkerSetPause(b) /\ UNCHANGED <<poolVars, player_proc, appVars>>

\* The consumer asks a worker whose video is loaded to load another video.
LoadOther(m, kind, d) ==
    /\ w.state \in {"Loaded", "Playing", "Paused"}
    /\ w.loads < MaxLoads
    /\ w_inbox = << >>
    /\ m # w.media_input
    /\ w' = [w EXCEPT !.kind = kind, !.dims = d, !.session = 0, !.restarts = 0,
                      !.loads = w.loads + 1]
    /\ w_inbox' = Append(w_inbox, <<"load_video", m>>)
    /\ UNCHANGED w_outbox

NextReload ==
    \/ NextWorker
    \/ \E m \in Media, kind \in Kinds, d \in Dimensions :
         LoadOther(m, kind, d) /\ UNCHANGED <<poolVars, chanVars, player_proc, appVars>>

(***************************************************************************)
(* The life of the workers of an instance: a slot is claimed, the worker   *)
(* is created, its thread runs init_player, and cleanup stops the decoder  *)
(* and releases the slot.  release_player of the base class is modelled    *)
(* as the call of release_player_shared_data.                              *)
(***************************************************************************)
\* PlayerProcessSingleVLCSW.__init__: self.decoder = None
FreshWorker == [decoder |-> "None", stopped |-> FALSE, c_pc |-> "none"]

InitLife == player_proc = [id \in PlayerIds |-> FreshWorker]

\* init_player_shared_data is called for a new worker.
LifeClaim(id) ==
    /\ AllIdle
    /\ ClaimCall("gui", id)
    /\ player_proc' = [player_proc EXCEPT ![id] = FreshWorker]

\* init_player, in the worker's thread: self.decoder = ImageDecoder(...)
init_player(id) ==
    /\ players[id] # 0
    /\ player_proc[id].decoder = "None"
    /\ player_proc[id].c_pc \in {"none", "super"}
    /\ player_proc' = [player_proc EXCEPT ![id].decoder = "ImageDecoder"]
    /\ UNCHANGED poolVars

\* cleanup is called on a worker.
CleanupCall(id) ==
    /\ players[id] # 0
    /\ player_proc[id].c_pc = "none"
    /\ player_proc' = [player_proc EXCEPT ![id].c_pc = "super"]
    /\ UNCHANGED poolVars

\* cleanup: super().cleanup()
CleanupSuper(id) ==
    /\ player_proc[id].c_pc = "super"
    /\ player_proc' = [player_proc EXCEPT ![id].c_pc = "stop"]
    /\ UNCHANGED poolVars

\* cleanup: self.decoder.stop(); on None the attribute access raises and
\* cleanup is left.
CleanupStop(id) ==
    /\ player_proc[id].c_pc = "stop"
    /\ player_proc' = IF player_proc[id].decoder = "None"
             THEN [player_proc EXCEPT ![id].c_pc = "raised"]
             ELSE [player_proc EXCEPT ![id].c_pc = "release", ![id].stopped = TRUE]
    /\ UNCHANGED poolVars

\* cleanup: self.release_callback(self.id)
CleanupRelease(id) ==
    /\ player_proc[id].c_pc = "release"
    /\ AllIdle
    /\ ReleaseCall("instance", id)
    /\ player_proc' = [player_proc EXCEPT ![id].c_pc = "releasing"]

\* release_callback returns, and cleanup with it.
CleanupReturn(id) ==
    /\ player_proc[id].c_pc = "releasing"
    /\ p_pc["instance"] = "idle"
    /\ player_proc' = [player_proc EXCEPT ![id].c_pc = "done"]
    /\ UNCHANGED poolVars

\* A step inside init_player_shared_data or release_player_shared_data.
TableStep(c) ==
    \/ ClaimScan(c) \/ ClaimSetBusy(c) \/ ClaimSetId(c) \/ ClaimStore(c)
    \/ ReleaseFind(c) \/ ReleaseClearId(c) \/ ReleaseClearBusy(c)

NextLife ==
    \/ \E id \in PlayerIds : LifeClaim(id) /\ UNCHANGED <<chanVars, w, w_inbox, w_outbox, appVars>>
    \/ \E c \in Callers : TableStep(c) /\ UNCHANGED <<chanVars, workerVars, appVars>>
    \/ \E id \in PlayerIds : AllIdle /\ new_player(id) /\ UNCHANGED <<chanVars, workerVars, appVars>>
    \/ \E id \in PlayerIds : init_player(id) /\ UNCHANGED <<chanVars, w, w_inbox, w_outbox, appVars>>
    \/ \E id \in PlayerIds : CleanupCall(id) /\ UNCHANGED <<chanVars, w, w_inbox, w_outbox, appVars>>
    \/ \E id \in PlayerIds : CleanupSuper(id) /\ UNCHANGED <<chanVars, w, w_inbox, w_outbox, appVars>>
    \/ \E id \in PlayerIds : CleanupStop(id) /\ UNCHANGED <<chanVars, w, w_inbox, w_outbox, appVars>>
    \/ \E id \in PlayerIds : CleanupRelease(id) /\ UNCHANGED <<chanVars, w, w_inbox, w_outbox, appVars>>
    \/ \E id \in PlayerIds : CleanupReturn(id) /\ UNCHANGED <<chanVars, w, w_inbox, w_outbox, appVars>>

(***************************************************************************)
(* PlaylistManager.cmd_save_playlist                                       *)
(***************************************************************************)
\* The names and the suffixes of the paths the save dialog can return.
Stems == {"Untitled", "list"}
Suffixes == {"", ".txt", ".gpls", ".GPLS"}
Paths == [stem : Stems, suffix : Suffixes]

\* What the save dialog returns when it is cancelled: "".
NoPath == [stem |-> "", suffix |-> ""]

\* The videos of the grid a playlist is made of.
Videos == {"A", "B"}

\* The answers of QCustomMessageBox.question.
Answers == {"Yes", "No"}

\* str.lower() of a suffix.
Lower(suffix) == IF suffix = ".GPLS" THEN ".gpls" ELSE suffix

\* Path.with_suffix(suffix)
with_suffix(path, suffix) == [path EXCEPT !.suffix = suffix]

\* Playlist.dumps(): the text of the playlist.
Dumps(videos) == <<"videos", videos>>

\* hash() of the text of a playlist.
Hash(text) == IF text[2] = "A" THEN 17 ELSE 23

\* The content of a path that is no file.
NoFile == << >>

\* Path.is_file()
is_file(files, path) == files[path] # NoFile

\* _is_overwrite_denied: asks only if the file exists; if ret != QMessageBox.No:
\* return True
is_overwrite_denied(files, file_path, ret) ==
    IF is_file(files, file_path) /\ ret # "No" THEN TRUE ELSE FALSE

\* Two optional values are the same.
SameOption(a, b) == a.some = b.some /\ (a.some => a.v = b.v)

\* No save command has run yet.
NoSave == [name |-> "none", lacked |-> FALSE, existed |-> FALSE, ret |-> "No",
           wrote |-> FALSE, files_same |-> TRUE, saved_same |-> TRUE]

\* __init__: self._saved_playlist = None; the disk holds one playlist.
InitPlaylist ==
    pm = [saved_playlist |-> None,
          videos |-> "A",
          files |-> [path \in Paths |->
                       IF path = [stem |-> "list", suffix |-> ".gpls"]
                       THEN Dumps("B") ELSE NoFile],
          last |-> NoSave]

\* The user changes the videos of the grid.
EditVideos(videos) ==
    /\ pm.videos # videos
    /\ pm' = [pm EXCEPT !.videos = videos, !.last = NoSave]
    /\ UNCHANGED tt

\* cmd_save_playlist; chosen is what getSaveFileName returns, ret what the user
\* answers if the overwrite question is asked. last is history.
cmd_save_playlist(chosen, ret) ==
    LET playlist == Dumps(pm.videos)
        lacked == Lower(chosen.suffix) # ".gpls"
        file_path == IF lacked THEN with_suffix(chosen, ".gpls") ELSE chosen
        existed == chosen # NoPath /\ is_file(pm.files, file_path)
        denied == chosen # NoPath /\ lacked
                    /\ is_overwrite_denied(pm.files, file_path, ret)
        files == IF chosen = NoPath \/ denied THEN pm.files
                 ELSE [pm.files EXCEPT ![file_path] = playlist]
        saved == IF chosen = NoPath \/ denied THEN pm.saved_playlist
                 ELSE Some([path |-> file_path, state |-> Hash(playlist)])
    IN  /\ pm' = [pm EXCEPT
                    !.files = files,
                    !.saved_playlist = saved,
                    !.last = [name |-> IF chosen = NoPath THEN "cancelled" ELSE "save",
                              lacked |-> lacked, existed |-> existed, ret |-> ret,
                              wrote |-> ~(chosen = NoPath \/ denied),
                              files_same |-> files = pm.files,
                              saved_same |-> SameOption(saved, pm.saved_playlist)]]
        /\ UNCHANGED tt

NextSave ==
    \/ \E videos \in Videos :
         EditVideos(videos) /\ UNCHANGED <<poolVars, chanVars, workerVars>>
    \/ \E chosen \in Paths \cup {NoPath}, ret \in Answers :
         cmd_save_playlist(chosen, ret) /\ UNCHANGED <<poolVars, chanVars, workerVars>>

(***************************************************************************)
(* gridplayer.utils.time_txt                                               *)
(***************************************************************************)
\* The characters of the decimal digits.
DigitChars == <<"0", "1", "2", "3", "4", "5", "6", "7", "8", "9">>

\* time.gmtime(seconds): the time of day, seconds after the epoch.
gmtime(seconds) ==
    [tm_hour |-> (seconds \div 3600) % 24,
     tm_min |-> (seconds \div 60) % 60,
     tm_sec |-> seconds % 60]

\* A number below 100 in two digits.
TwoDigits(n) == <<DigitChars[(n \div 10) + 1], DigitChars[(n % 10) + 1]>>

\* time.strftime(format, tm), the format given as its directives and
\* characters.
RECURSIVE strftime(_, _)
strftime(format, tm) ==
    IF format = << >> THEN << >>
    ELSE LET d == Head(format)
             out == IF d = "%H" THEN TwoDigits(tm.tm_hour)
                    ELSE IF d = "%M" THEN TwoDigits(tm.tm_min)
                    ELSE IF d = "%S" THEN TwoDigits(tm.tm_sec)
                    ELSE <<d>>
         IN  out \o strftime(Tail(format), tm)

\* str.lstrip(ch)
RECURSIVE lstrip(_, _)
lstrip(text, ch) ==
    IF text # << >> /\ Head(text) = ch THEN lstrip(Tail(text), ch) ELSE text

\* get_time_txt_short
get_time_txt_short(seconds) ==
    IF seconds > 3600
    THEN lstrip(strftime(<<"%H", ":", "%M", ":", "%S">>, gmtime(seconds)), "0")
    ELSE IF seconds > 60
    THEN lstrip(strftime(<<"%M", ":", "%S">>, gmtime(seconds)), "0")
    ELSE strftime(<<"0", ":", "%S">>, gmtime(seconds))

\* get_time_txt: max_seconds is None or a number, and `max_seconds or seconds`
\* takes seconds when it is None or 0.
get_time_txt(seconds, max_seconds) ==
    LET seconds_cnt == IF max_seconds.some /\ max_seconds.v # 0
                       THEN max_seconds.v ELSE seconds
    IN  IF seconds_cnt > 3600
        THEN strftime(<<"%H", ":", "%M", ":", "%S">>, gmtime(seconds))
        ELSE IF seconds_cnt > 60
        THEN strftime(<<"%M", ":", "%S">>, gmtime(seconds))
        ELSE strftime(<<"0", ":", "%S">>, gmtime(seconds))

\* The numbers of seconds the texts are made for: the first two minutes, the
\* minutes around one hour, and hours up to the end of the day.
TimeSamples ==
    (0..130) \cup (3590..3670) \cup {7199, 7200, 35999, 36000, 36001, 86399}

\* No text has been made yet.
InitTime == tt = [seconds |-> 0, short |-> << >>, txt |-> << >>, made |-> FALSE]

\* A position of seconds is shown: both texts are made for it.
ShowTime(seconds) ==
    /\ tt' = [seconds |-> seconds,
              short |-> get_time_txt_short(seconds),
              txt |-> get_time_txt(seconds, None),
              made |-> TRUE]
    /\ UNCHANGED pm

NextTime ==
    \E seconds \in TimeSamples :
        ShowTime(seconds) /\ UNCHANGED <<poolVars, chanVars, workerVars>>

\* The number a field of decimal digits denotes; -1 for an empty field or
\* one with another character.
RECURSIVE FieldValue(_)
FieldValue(field) ==
    IF field = << >> THEN -1
    ELSE LET last == field[Len(field)]
             digit == IF \E k \in 1..10 : DigitChars[k] = last
                      THEN (CHOOSE k \in 1..10 : DigitChars[k] = last) - 1 ELSE -1
             front == SubSeq(field, 1, Len(field) - 1)
         IN  IF digit = -1 THEN -1
             ELSE IF front = << >> THEN digit
             ELSE IF FieldValue(front) = -1 THEN -1
             ELSE FieldValue(front) * 10 + digit

\* The fields of a text, separated by colons.
RECURSIVE Fields(_)
Fields(text) ==
    IF \A i \in 1..Len(text) : text[i] # ":" THEN <<text>>
    ELSE LET i == CHOOSE j \in 1..Len(text) :
                     text[j] = ":" /\ \A k \in 1..(j - 1) : text[k] # ":"
         IN  <<SubSeq(text, 1, i - 1)>> \o Fields(SubSeq(text, i + 1, Len(text)))

\* The duration a text denotes, read as [hours:]minutes:seconds; -1 if it
\* cannot be read so.
Duration(text) ==
    LET f == Fields(text)
        v == [i \in 1..Len(f) |-> FieldValue(f[i])]
    IN  IF \E i \in 1..Len(f) : v[i] = -1 THEN -1
        ELSE IF Len(f) = 3 THEN v[1] * 3600 + v[2] * 60 + v[3]
        ELSE IF Len(f) = 2 THEN v[1] * 60 + v[2]
        ELSE -1

Init ==
    /\ InitPool /\ InitChannel /\ InitWorker /\ InitLife
    /\ InitPlaylist /\ InitTime

SpecPool == Init /\ [][NextPool]_vars

SpecChannel == Init /\ [][NextChannel]_vars

SpecWorker == Init /\ [][NextWorker]_vars

SpecTeardown == Init /\ [][NextTeardown]_vars

SpecLife == Init /\ [][NextLife]_vars

\* Playback with its scheduling: every lock entry is followed by the write and
\* the unlock entry, the callbacks and the renderer's command loop keep
\* running, and the renderer gets the lock if it is free again and again.
SpecPlayFair ==
    /\ Init /\ [][NextPlay]_vars
    /\ WF_vars(AfterLockEntry /\ UNCHANGED <<poolVars, workerVars, appVars>>)
    /\ WF_vars(RendererStep /\ UNCHANGED <<poolVars, workerVars, appVars>>)
    /\ WF_vars(UiStep /\ UNCHANGED <<poolVars, workerVars, appVars>>)
    /\ SF_vars(ProcessImageEnter /\ UNCHANGED <<poolVars, workerVars, appVars>>)

SpecPoolConcurrent == Init /\ [][NextPoolConcurrent]_vars

SpecReload == Init /\ [][NextReload]_vars

\* Teardown started by the renderer's cleanup, with its scheduling: the threads that run cleanup, stop() and the
\* renderer's command loop keep running, and a thread waiting for the lock gets
\* it if the lock is free again and again. A callback that was entered runs to
\* its end; nothing is assumed of when the decoder calls one.
SpecTeardownFair ==
    /\ Init /\ [][NextShutdown]_vars
    /\ WF_vars(CallbackStep /\ UNCHANGED <<poolVars, workerVars, appVars>>)
    /\ WF_vars(CleanupStep /\ UNCHANGED <<poolVars, workerVars, appVars>>)
    /\ SF_vars(CleanupEnter /\ UNCHANGED <<poolVars, workerVars, appVars>>)
    /\ WF_vars(StopStep /\ UNCHANGED <<poolVars, workerVars, appVars>>)
    /\ WF_vars(RendererStep /\ UNCHANGED <<poolVars, workerVars, appVars>>)
    /\ WF_vars(UiStep /\ UNCHANGED <<poolVars, workerVars, appVars>>)
    /\ SF_vars(ProcessImageEnter /\ UNCHANGED <<poolVars, workerVars, appVars>>)

\* Saving of playlists on its own.
SpecSave == Init /\ [][NextSave]_vars

\* The time texts on their own.
SpecTime == Init /\ [][NextTime]_vars

(***************************************************************************)
(* Properties of the channel (SpecChannel).                                *)
(***************************************************************************)
\* The decoder is between a lock entry and the matching unlock entry.
DecoderBetweenLockAndUnlock == dec.pc \in {"write_head", "write_tail", "written"}

\* The renderer has read a part of the buffer and has not read the rest yet.
RendererReading == rend.pc = "pi_copy_tail"

\* C2 as claimed: the renderer never reads the channel buffer while the decoder
\* is between a lock entry and the matching unlock entry.
C2_NoReadBetweenLockAndUnlock == ~(RendererReading /\ DecoderBetweenLockAndUnlock)

\* C6 as claimed: once stop() has set the stopped flag and closed the channel, no
\* callback (fired afterwards or in flight) writes or reads the buffer, sends a
\* frame-ready notification or fails.
C6_NoCallbackEffectAfterStop == ~hist.late

\* a and b hold the same bytes at every offset below k.
SameBelow(a, b, k) == \A i \in 0..(k - 1) : ByteAt(a, i) = ByteAt(b, i)

\* The unlock entry has run its body and is about to leave the with block.
UnlockBodyDone == dec.pc = "u_release"

\* C7: an unlock entry that finds the bridge paused (and not stopped), for a
\* frame equal to the previously fingerprinted frame at every offset below 1024,
\* sends no frame-ready notification.
C7_PausedTailChangeSuppressed ==
    (/\ UnlockBodyDone
     /\ ~dec.saw_stopped /\ dec.saw_paused /\ ~dec.fault
     /\ dec.prev_fp.some
     /\ SameBelow(shm_buf, dec.prev_fp.v, FRAME_HEAD))
        => dec.sent = 0

\* C7 witness: such an unlock entry, for a frame that does differ from the
\* fingerprinted one at an offset of 1024 or more, has sent nothing.
C7_Witness ==
    /\ UnlockBodyDone
    /\ ~dec.saw_stopped /\ dec.saw_paused /\ ~dec.fault
    /\ dec.prev_fp.some
    /\ shm_buf # dec.prev_fp.v
    /\ SameBelow(shm_buf, dec.prev_fp.v, FRAME_HEAD)
    /\ dec.sent = 0

\* C8: an unlock entry that finds the bridge not stopped and not paused sends
\* exactly one frame-ready notification, and no unlock entry sends more than one.
C8_PlayingAlwaysNotifies ==
    /\ dec.sent <= 1
    /\ (UnlockBodyDone /\ ~dec.saw_stopped /\ ~dec.saw_paused) => dec.sent = 1

\* C8 witness: it has sent one for a frame whose head equals the stored
\* fingerprint.
C8_Witness ==
    /\ UnlockBodyDone /\ ~dec.saw_stopped /\ ~dec.saw_paused
    /\ dec.sent = 1
    /\ bridge.prev_frame_head = Some(FrameHead(shm_buf))

\* C9: whenever the decoder is outside its callbacks, so after every unlock
\* entry has finished, the decoder does not hold the channel lock.
C9_UnlockAlwaysReleases == dec.pc = "idle" => lock # "decoder"

\* C9 witness: unlock entries have finished on the notifying path (a fingerprint
\* is stored) and after stop() (a late callback touched the channel), and the
\* lock is free.
C9_Witness ==
    /\ dec.pc = "idle" /\ lock = "free"
    /\ bridge.prev_frame_head.some
    /\ bridge.stopped /\ hist.late


\* No teardown has begun: neither cleanup has been called.
NoTeardown == tear.c_pc = "none" /\ tear.s_pc = "none"

\* C12 as claimed: the bytes the renderer obtains from the channel are the
\* bytes of one write of the decoder (or the zeros of the fresh buffer), with no
\* bytes of another write among them.
C12_ReadYieldsOneWrite ==
    (NoTeardown /\ rend.pix.some) => rend.pix.v \in Frames

\* C20 as claimed: whenever the renderer reads the pixels of the shared buffer
\* it holds the channel lock, so that the copy is complete before the release.
C20_CopyBeforeRelease ==
    rend.pc \in {"pi_copy_head", "pi_copy_tail"} => lock = "renderer"


(***************************************************************************)
(* Properties of teardown (SpecTeardown, SpecTeardownFair).                *)
(***************************************************************************)
\* C13: stop(), called with the lock held or not, a first or a second time,
\* and the renderer's cleanup, before or after stop(), never end with an error
\* and never wait at the release; when stop() has finished the bridge is stopped
\* and its channel closed, when cleanup has left its with block the renderer's
\* handle is closed and the lock is not held by cleanup.
C13_TeardownIdempotent ==
    /\ tear.s_pc # "raised" /\ tear.c_pc # "raised"
    /\ tear.s_pc = "stop_release" => ENABLED StopRelease
    /\ tear.s_pc \in {"stop_close", "done"} => bridge.stopped
    /\ tear.s_pc = "done" => bridge.memory = "closed"
    /\ tear.c_pc \in {"set_none", "exit"} => rend.memory = "closed"
    /\ tear.c_pc \in {"none", "enter", "player", "done"} => lock # "ui"

\* C13 witness: stop() has finished a second time and cleanup has finished
\* after closing its handle; the lock is free and the channel closed.
C13_Witness ==
    /\ hist.stops = 1
    /\ tear.s_pc = "done" /\ tear.c_pc = "done"
    /\ lock = "free"
    /\ bridge.stopped /\ bridge.memory = "closed" /\ rend.memory = "closed"

\* VideoDriverVLCSW.cleanup or the worker's cleanup has been called.
TeardownBegun == tear.c_pc # "none" \/ tear.s_pc # "none"

TeardownComplete == tear.c_pc = "done" /\ tear.s_pc = "done"

\* C17 as claimed: once teardown has begun, the renderer's cleanup and the
\* bridge's stop() both complete, whatever the decoder does, a decoder that
\* holds the lock and never calls the unlock entry included.
C17_TeardownCompletes == TeardownBegun ~> TeardownComplete


(***************************************************************************)
(* Properties of the workers' cleanup (SpecLife).                          *)
(***************************************************************************)
\* The cleanup of the worker has ended, by a return or by an error.
CleanupEnded(id) == player_proc[id].c_pc \in {"done", "raised"}

\* C14 as claimed: cleanup stops the bridge before it releases the slot, and
\* when the cleanup of a worker has ended, in whichever state it found the
\* worker, no slot carries the worker's id and the slot it held is not busy.
C14_CleanupStopsThenReleases ==
    \A id \in PlayerIds :
        /\ player_proc[id].c_pc \in {"release", "releasing", "done"} => player_proc[id].stopped
        /\ CleanupEnded(id) =>
              /\ MatchingSlots(id) = {}
              /\ players[id] = 0


(***************************************************************************)
(* The load and restart protocol.                                          *)
(***************************************************************************)
WorkerReady == w.state \in {"Loaded", "Playing", "Paused"}

\* C3: when the 'loaded' event arrives and the buffer and the callbacks
\* are not attached, the handler does not run the normal loaded step: it
\* stops the playback and sends load_video with the media_input it was
\* loading; and a video is never ready to play without an attached decoder.
C3_LoadedWithoutDecoderRestarts ==
    /\ (w.ev.name = "loaded" /\ ~w.ev.attached) =>
          /\ ~w.ev.normal
          /\ w.ev.stopped
          /\ w.state = "Stopped"
          /\ w.media_input \in Media
          /\ w.ev.sent = <<"load_video", w.media_input>>
    /\ WorkerReady => w.attached

C3_Witness ==
    /\ w.ev.name = "loaded" /\ ~w.ev.attached
    /\ w.ev.stopped
    /\ w_outbox # << >>

C15_FailedAllocationLeavesDecoderUnattached ==
    w.state = "Crashed" =>
        /\ ~w.is_decoder_initialized
        /\ ~w.attached /\ w.format = << >> /\ w.allocated = 0
        /\ \A i \in 1..Len(w_outbox) : w_outbox[i][1] # "init_frame"

\* C16 as claimed: over the loads a worker handles, the buffer is allocated at
\* most once, and the frame's width, height and row size stay those of that
\* allocation.
C16_AllocatedOnceMetadataFixed ==
    /\ w.allocs <= 1
    /\ w.allocs >= 1 => w.frame = w.frame0

\* C19 as claimed: during playback the decoder is never blocked forever: a
\* decoder that is inside the callbacks gets out of them (it does not wait
\* forever to send frame-ready), and a lock held by the renderer is released, so
\* that a lock entry waiting for it returns.
C19_DecoderNeverBlockedForever ==
    /\ (dec.pc # "idle") ~> (dec.pc = "idle")
    /\ (lock = "renderer") ~> (lock # "renderer")

(***************************************************************************)
(* Further properties of the channel (SpecChannel).                        *)
(***************************************************************************)
\* The step of stop() that releases the lock.
StopReleaseStep == tear.s_pc = "stop_release" /\ tear'.s_pc = "stop_close"

\* C21 as claimed: stop() releases the lock after it has set the stopped flag
\* and before it closes the channel, and a lock that the renderer holds for a
\* read in progress is still held by the renderer after the release of stop().
C21_StopReleasesOnlyDecoderLock ==
    [][StopReleaseStep =>
          /\ bridge.stopped /\ bridge.memory = "open"
          /\ (lock = "renderer" => lock' = "renderer")]_vars

\* C22 as claimed: when an unlock entry that was not ignored because of stop
\* has run its body, whether it found the bridge playing or paused, the
\* retained fingerprint equals the first 1024 bytes of the frame in the buffer.
C22_FingerprintFollowsEveryFrame ==
    (UnlockBodyDone /\ ~dec.saw_stopped /\ ~dec.fault)
        => bridge.prev_frame_head = Some(FrameHead(shm_buf))

\* C23: the paused flag of the bridge equals what the last playback command
\* asked for (true before any command, false after play, p after
\* set_pause(p)), and a step that changes the flag leaves the allocation of
\* the channel, the lock, the stopped flag and the slot table as they were.
C23_PausedFlagFollowsCommands ==
    /\ [](bridge.is_paused = hist.cmd_paused)
    /\ [][bridge'.is_paused # bridge.is_paused =>
            /\ lock' = lock
            /\ bridge'.stopped = bridge.stopped
            /\ bridge'.memory = bridge.memory
            /\ BLen(shm_buf') = BLen(shm_buf)
            /\ UNCHANGED <<is_busy, player_id, players_shared_data>>]_vars

\* C23 witness: play was the last command, given while a decoder callback
\* held the lock; the flag is cleared and the lock is still the decoder's.
C23_Witness ==
    /\ ~hist.cmd_paused /\ ~bridge.is_paused
    /\ lock = "decoder" /\ dec.pc = "u_paused"
    /\ ~bridge.stopped /\ bridge.memory = "open"

\* process_image has got past the wrapping of the buffer, or has ended with
\* an error.
ProcessImageWentOn ==
    rend.pc \in {"pi_exit", "pi_copy_head", "pi_copy_tail", "pi_emit",
                 "raised", "crashed"}

\* C24 as claimed: a frame-ready notification that reaches the renderer after
\* cleanup closed the channel is skipped: process_image reads nothing, emits
\* no image-ready signal, raises no error, and when it has returned the
\* renderer does not hold the lock.
C24_StaleNotificationSkipped ==
    rend.stale =>
        /\ ~ProcessImageWentOn
        /\ (rend.pc = "idle" => lock # "renderer")

(***************************************************************************)
(* Properties of the display (SpecPlayFair).                               *)
(***************************************************************************)
\* process_image is past its first test.
ProcessImageBusy ==
    rend.pc \in {"pi_with", "pi_enter", "pi_wrap", "pi_exit", "pi_copy_head",
                 "pi_copy_tail", "pi_emit"}

\* init_frame has stored the handle and the dimensions.
HandleStored == rend.shared_memory = "handle"

\* The solid image of the stored dimensions.
Placeholder ==
    [kind |-> "placeholder", width |-> rend.width, height |-> rend.height]

\* The signal set_dummy_frame_sig waits for the UI thread.
DummyPending == \E i \in 1..Len(rend.signals) : rend.signals[i] = "set_dummy_frame"

\* A frame on the display stays a frame.
FrameStays == [][rend.image_dest.kind = "frame" => rend'.image_dest.kind = "frame"]_vars

\* C25 as claimed: process_image does nothing before init_frame has stored the
\* handle; from init_frame until the first frame has been processed the
\* display shows the placeholder of the stored dimensions; the placeholder
\* never replaces a frame.
C25_PlaceholderFromInitFrame ==
    /\ [](ProcessImageBusy => HandleStored)
    /\ []((HandleStored /\ ~rend.pix.some) => rend.image_dest = Placeholder)
    /\ FrameStays

\* C25 amended: process_image does nothing before init_frame has stored the
\* handle; the display shows nothing until the UI thread has handled the
\* set_dummy_frame signal of init_frame, from then on the placeholder of the
\* stored dimensions until it handles the first image_ready signal, and
\* frames ever after.
C25_PlaceholderOnceSignalHandled ==
    /\ [](ProcessImageBusy => HandleStored)
    /\ []((~HandleStored \/ DummyPending) => rend.image_dest = NoImage)
    /\ []((HandleStored /\ ~DummyPending /\ rend.image_dest.kind # "frame")
             => rend.image_dest = Placeholder)
    /\ [](rend.image_dest.kind = "frame" => rend.pix.some)
    /\ FrameStays

\* C25 witness: the placeholder of 17 x 16 is on display while the first
\* frame has been processed and its image_ready signal waits.
C25_Witness ==
    /\ HandleStored /\ rend.pix.some
    /\ rend.image_dest = [kind |-> "placeholder", width |-> FrameWidth,
                          height |-> FrameHeight]
    /\ rend.signals = <<"image_ready">>

(***************************************************************************)
(* Further properties of the slot table (SpecPool).                        *)
(***************************************************************************)
\* The handles made for an id: the one new_player gave to the worker and the
\* one kept for the consumer's lookup (each is the slot whose lock it uses).
HandlesOf(id) == {players[id], players_shared_data[id]} \ {0}

\* The ids that hold a slot: a busy slot carries the id.
SlotHolders == {id \in PlayerIds : MatchingSlots(id) \cap BusySlots # {}}

\* C26: under sequential calls, for every id that holds a slot exactly one
\* slot carries the id and every handle made for the id uses the lock of that
\* slot; handles of two different ids that hold slots never use the same lock.
C26_HandlesBoundToOwnSlot ==
    /\ \A id \in SlotHolders :
          /\ Cardinality(MatchingSlots(id)) = 1
          /\ HandlesOf(id) \subseteq MatchingSlots(id)
    /\ \A id1, id2 \in SlotHolders :
          id1 # id2 => HandlesOf(id1) \cap HandlesOf(id2) = {}

\* C26 witness: two ids hold slots, each with the worker's handle and the
\* consumer's handle, and one of them sits in the second slot.
C26_Witness ==
    \E id1, id2 \in SlotHolders :
        /\ id1 # id2
        /\ players[id1] = 1 /\ players_shared_data[id1] = 1
        /\ players[id2] = 2 /\ players_shared_data[id2] = 2

(***************************************************************************)
(* Further properties of the loading of a video (SpecWorker).              *)
(***************************************************************************)
\* C27: after the handling of a parsed event the decoder is attached exactly
\* if the parse gave the dimensions (and the allocation worked); an attached
\* decoder has a buffer of width * height * 4 bytes and the format
\* (RV32, width, height, width * 4) of the video's dimensions; init_frame is
\* sent only by a worker whose decoder is attached, after a failed allocation
\* nothing is attached and nothing sent; and no process_image is sent before
\* init_frame.
C27_AttachOrder ==
    /\ (w.ev.name = "parsed" /\ w.ev.normal) =>
          (w.attached <=> w.media_track # NoDims)
    /\ w.attached =>
          /\ w.allocated = w.dims[1] * w.dims[2] * 4
          /\ w.format = <<"RV32", w.dims[1], w.dims[2], w.dims[1] * 4>>
    /\ w.log # << >> => (w.log[1] = "init_frame" /\ w.attached)
    /\ ~w.attached =>
          \A i \in 1..Len(w_outbox) :
              w_outbox[i][1] \notin {"init_frame", "process_image"}

\* C27 witness: a parsed event with dimensions has attached the decoder, and
\* init_frame, then frame-ready notifications were sent.
C27_Witness ==
    /\ w.attached /\ w.media_track = <<FrameWidth, FrameHeight>>
    /\ w.format = <<"RV32", FrameWidth, FrameHeight, 68>>
    /\ w.log = <<"init_frame", "process_image", "process_image">>

(***************************************************************************)
(* Properties of the saving of playlists (SpecSave).                       *)
(***************************************************************************)
\* C28 as claimed: when the path chosen in cmd_save_playlist lacks the .gpls
\* suffix and the suffixed file exists, the file is written exactly if the
\* user answers Yes, and after the answer No the files and the remembered
\* path and state are as they were.
C28_OverwriteOnlyOnYes ==
    (pm.last.name = "save" /\ pm.last.lacked /\ pm.last.existed) =>
        /\ pm.last.wrote <=> pm.last.ret = "Yes"
        /\ pm.last.ret = "No" => (pm.last.files_same /\ pm.last.saved_same)

(***************************************************************************)
(* Properties of the time texts (SpecTime).                                *)
(***************************************************************************)
\* C29 as claimed: for every number of seconds below 86400 the texts of
\* get_time_txt_short and get_time_txt, read as [hours:]minutes:seconds,
\* denote that number of seconds.
C29_TextDenotesSeconds ==
    (tt.made /\ tt.seconds < 86400) =>
        /\ Duration(tt.short) = tt.seconds
        /\ Duration(tt.txt) = tt.seconds

====
